---- MODULE Spec2Model ----
(***************************************************************************)
(* Model of the hydrology pipeline: the Hyetograph / Hydrograph data       *)
(* model (src/types.py), the two excess-rainfall extractors and the        *)
(* unit-hydrograph convolution (src/functions.py).                         *)
(*                                                                         *)
(* Numbers.  The program computes on numpy float64 arrays.  A number is    *)
(* modelled as an exact fraction [num, den] in lowest terms with den > 0;  *)
(* the IEEE special values the code can produce by dividing by zero are    *)
(* den = 0: 0/0 is NaN, 1/0 is +inf, -1/0 is -inf.  Rounding is not        *)
(* modelled: every input of the model is a small integer, for which the    *)
(* float64 sums and products of the convolution and the phi method are     *)
(* exact.                                                                  *)
(***************************************************************************)
EXTENDS Integers, Sequences, FiniteSets, TLC

VARIABLES pc, gross, excess, unit_hydrograph, out

vars == <<pc, gross, excess, unit_hydrograph, out>>

\* ---------------------------------------------------------------- bounds
MaxLen == 3

\* ------------------------------------------------------------ arithmetic
Abs(n) == IF n < 0 THEN -n ELSE n

Sign(n) == IF n > 0 THEN 1 ELSE IF n < 0 THEN -1 ELSE 0

RECURSIVE Gcd(_, _)
Gcd(a, b) == IF b = 0 THEN a ELSE Gcd(b, a % b)

\* the fraction n/d in canonical form (d may be negative or zero)
Frac(n, d) ==
    IF d = 0 THEN [num |-> Sign(n), den |-> 0]
    ELSE LET g == Gcd(Abs(n), Abs(d))
         IN  [num |-> (Sign(d) * n) \div g, den |-> Abs(d) \div g]

Num(n) == [num |-> n, den |-> 1]

Zero == Num(0)

One == Num(1)

NaN == [num |-> 0, den |-> 0]

IsNaN(a) == a.den = 0 /\ a.num = 0

IsFinite(a) == a.den # 0

Neg(a) == [num |-> -a.num, den |-> a.den]

Add(a, b) ==
    IF IsNaN(a) \/ IsNaN(b) THEN NaN
    ELSE IF a.den = 0 /\ b.den = 0 THEN (IF a.num = b.num THEN a ELSE NaN)
    ELSE IF a.den = 0 THEN a
    ELSE IF b.den = 0 THEN b
    ELSE LET g == Gcd(a.den, b.den)
         IN  Frac(a.num * (b.den \div g) + b.num * (a.den \div g),
                  (a.den \div g) * b.den)

Sub(a, b) == Add(a, Neg(b))

Mul(a, b) ==
    IF a.den = 0 \/ b.den = 0 THEN Frac(a.num * b.num, 0)
    ELSE LET g == Gcd(Abs(a.num), b.den)
             h == Gcd(Abs(b.num), a.den)
         IN  Frac((a.num \div g) * (b.num \div h), (a.den \div h) * (b.den \div g))

\* numpy true division: x/0 is +-inf, 0/0 is nan (a RuntimeWarning, no error)
Div(a, b) ==
    IF IsNaN(a) \/ IsNaN(b) THEN NaN
    ELSE IF b.num = 0 /\ b.den # 0 THEN [num |-> Sign(a.num), den |-> 0]
    ELSE Mul(a, Frac(b.den * Sign(b.num), Abs(b.num)))

\* a > b; every comparison with NaN is false
Gt(a, b) ==
    IF IsNaN(a) \/ IsNaN(b) THEN FALSE
    ELSE IF a.den = 0 /\ b.den = 0 THEN a.num > b.num
    ELSE a.num * b.den > b.num * a.den

Lt(a, b) == Gt(b, a)

\* ------------------------------------------------------- sequence helpers
SeqsUpTo(S, lo, hi) == UNION {[1..n -> S] : n \in lo..hi}

NumSeq(s) == [i \in 1..Len(s) |-> Num(s[i])]

RECURSIVE SumTo(_, _)
SumTo(s, k) == IF k = 0 THEN Zero ELSE Add(SumTo(s, k - 1), s[k])

\* np.sum
Sum(s) == SumTo(s, Len(s))

\* np.cumsum
CumSum(s) == [k \in 1..Len(s) |-> SumTo(s, k)]

\* np.diff(s, prepend=0)
DiffPrepend0(s) ==
    [k \in 1..Len(s) |-> IF k = 1 THEN Sub(s[1], Zero) ELSE Sub(s[k], s[k - 1])]

\* mutant: only the first leading zero is dropped
TrimFrontOnce(s) ==
    IF s = <<>> THEN s
    ELSE IF s[1] # Zero THEN s
    ELSE Tail(s)

RECURSIVE TrimFront(_)
TrimFront(s) ==
    IF s = <<>> THEN s
    ELSE IF s[1] # Zero THEN s
    ELSE TrimFront(Tail(s))

RECURSIVE TrimBack(_)
TrimBack(s) ==
    IF s = <<>> THEN s
    ELSE IF s[Len(s)] # Zero THEN s
    ELSE TrimBack(SubSeq(s, 1, Len(s) - 1))

\* mutant: np.trim_zeros(s, 'f'), trailing zeros are kept
trim_zeros_front(s) == TrimFront(s)

\* np.trim_zeros(s): leading zeros are dropped, then trailing zeros
trim_zeros(s) == TrimBack(TrimFront(s))

RECURSIVE MaxOf(_, _)
MaxOf(s, k) ==
    IF k = 1 THEN s[1]
    ELSE LET m == MaxOf(s, k - 1) IN IF Gt(s[k], m) THEN s[k] ELSE m

\* the builtin max(series) of a non-empty series
Max(s) == MaxOf(s, Len(s))

\* ------------------------------------------------------------ data model
None == [none |-> TRUE]

DeltaTimes == {4, 6}

\* curve numbers the caller tries: 0 and 101 lie outside (0, 100]; 70 is main()'s
CurveNumbers == {0, 70, 100, 101}

\* Hyetograph.__init__
Hyetograph(delta_t, series) ==
    [delta_time |-> delta_t, data |-> series, total_duration |-> Len(series) * delta_t]

\* Hyetograph.__len__: the truth value of a Hyetograph is that of len(series)
HyetographLen(h) == Len(h.data)

\* `if hyetograph`: None is false, and so is a Hyetograph of length 0
Truthy(h) == h # None /\ HyetographLen(h) # 0

\* Hyetograph.total_rainfall
total_rainfall(h) == Sum(h.data)

Ok(v, w) == [status |-> "ok", value |-> v, warned |-> w]

Raise(e) == [status |-> e, value |-> None, warned |-> FALSE]

\* Hydrograph.__init__(delta_t, series, hyetograph)
HydrographInit(delta_t, series, hyetograph) ==
    IF Truthy(hyetograph) /\ delta_t # hyetograph.delta_time
    THEN Raise("DeltaTimeMismatchError")
    ELSE Ok([delta_time |-> delta_t,
             data |-> series,
             total_duration |-> Len(series) * delta_t,
             associated_hyetograph |->
                 IF Truthy(hyetograph) THEN hyetograph
                 ELSE Hyetograph(delta_t, <<One>>)], FALSE)

\* ------------------------------------------------------------ convolution
\* np.zeros((n, m))
Zeros(n, m) == [r \in 1..n |-> [c \in 1..m |-> Zero]]

\* mutant: np.eye(m) + pulse
EyePlus(m, pulse) ==
    [r \in 1..m |-> [c \in 1..m |-> Add(IF r = c THEN One ELSE Zero, pulse)]]

\* np.eye(m) * pulse
EyeTimes(m, pulse) ==
    [r \in 1..m |-> [c \in 1..m |-> Mul(IF r = c THEN One ELSE Zero, pulse)]]

\* mutant: the two blocks of zeros are swapped
VStackSwapped(i, m, len, pulse) ==
    [r \in 1..(len - i - 1) |-> [c \in 1..m |-> Zero]]
    \o [r \in 1..m |-> [c \in 1..m |-> Mul(IF r = c THEN One ELSE Zero, pulse)]]
    \o [r \in 1..i |-> [c \in 1..m |-> Zero]]

\* np.vstack([np.zeros((i, m)), np.eye(m) * pulse, np.zeros((len - i - 1, m))])
VStack(i, m, len, pulse) ==
    Zeros(i, m) \o EyeTimes(m, pulse) \o Zeros(len - i - 1, m)

MatAdd(A, B) == [r \in 1..Len(A) |-> [c \in 1..Len(A[r]) |-> Add(A[r][c], B[r][c])]]

\* the loop of get_convolution after its first k passes (i = 0 .. k-1)
RECURSIVE RainMatrixAfter(_, _, _)
RainMatrixAfter(hy_series, uh_length, k) ==
    IF k = 0 THEN Zeros(uh_length + Len(hy_series) - 1, uh_length)
    ELSE MatAdd(RainMatrixAfter(hy_series, uh_length, k - 1),
                VStack(k - 1, uh_length, Len(hy_series), hy_series[k]))

rain_matrix(hy_series, uh_length) ==
    RainMatrixAfter(hy_series, uh_length, Len(hy_series))

\* np.dot(M, v)
Dot(M, v) ==
    [r \in 1..Len(M) |-> Sum([c \in 1..Len(v) |-> Mul(M[r][c], v[c])])]

\* series_data of get_convolution
series_data(hy_series, uh_series) ==
    Dot(rain_matrix(hy_series, Len(uh_series)), uh_series)

\* mutant: the time steps are compared before the unit-hydrograph test
get_convolution_dt_first(hyetograph, unit_hyd) ==
    IF hyetograph.delta_time # unit_hyd.delta_time
    THEN Raise("DeltaTimeMismatchError")
    ELSE IF unit_hyd.associated_hyetograph.data # <<One>>
    THEN Raise("NotAUnitHydrographError")
    ELSE HydrographInit(hyetograph.delta_time,
                        series_data(hyetograph.data, unit_hyd.data),
                        hyetograph)

\* mutant: only the first pulse of the associated hyetograph is compared with 1
get_convolution_first_pulse(hyetograph, unit_hyd) ==
    IF unit_hyd.associated_hyetograph.data[1] # One
    THEN Raise("NotAUnitHydrographError")
    ELSE IF hyetograph.delta_time # unit_hyd.delta_time
    THEN Raise("DeltaTimeMismatchError")
    ELSE HydrographInit(hyetograph.delta_time,
                        series_data(hyetograph.data, unit_hyd.data),
                        hyetograph)

get_convolution(hyetograph, unit_hyd) ==
    IF unit_hyd.associated_hyetograph.data # <<One>>
    THEN Raise("NotAUnitHydrographError")
    ELSE IF hyetograph.delta_time # unit_hyd.delta_time
    THEN Raise("DeltaTimeMismatchError")
    ELSE IF Len(unit_hyd.data) + Len(hyetograph.data) - 1 < 0
    THEN Raise("ValueError")
    ELSE HydrographInit(hyetograph.delta_time,
                        series_data(hyetograph.data, unit_hyd.data),
                        hyetograph)

\* ------------------------------------------------------ excess rainfall
\* src.constants.SCS_CN_METHOD_NUMBER (25.4, millimetres)
SCS_CN_METHOD_NUMBER == Frac(127, 5)

\* src.constants.INITIAL_ABSTRACTION_RATIO (0.2)
INITIAL_ABSTRACTION_RATIO == Frac(1, 5)

\* mutant: 100 / curve_number * SCS_CN_METHOD_NUMBER, the "- 1" is lost
maximum_storage_no_minus_one(curve_number) ==
    Mul(Div(Num(100), curve_number), SCS_CN_METHOD_NUMBER)

\* (100 / curve_number - 1) * SCS_CN_METHOD_NUMBER
maximum_storage(curve_number) ==
    Mul(Sub(Div(Num(100), curve_number), One), SCS_CN_METHOD_NUMBER)

\* [max_i_a if p > max_i_a else p for p in cum_rainfall]
initial_abstraction(cum_rainfall, max_i_a) ==
    [t \in 1..Len(cum_rainfall) |->
        IF Gt(cum_rainfall[t], max_i_a) THEN max_i_a ELSE cum_rainfall[t]]

\* maximum_storage * (cum_rainfall - ia) / (total_rainfall - ia + maximum_storage)
continuous_abstraction(S, cum_rainfall, ia, total) ==
    [t \in 1..Len(cum_rainfall) |->
        Div(Mul(S, Sub(cum_rainfall[t], ia[t])),
            Add(Sub(total, ia[t]), S))]

\* cum_rainfall - continuous_abstraction - initial_abstraction
cum_excess_rainfall(cum_rainfall, ca, ia) ==
    [t \in 1..Len(cum_rainfall) |-> Sub(Sub(cum_rainfall[t], ca[t]), ia[t])]

get_excess_rainfall_hyetograph_cn(hyetograph, curve_number) ==
    IF ~(Gt(curve_number, Zero) /\ ~Gt(curve_number, Num(100)))
    THEN Raise("ValueError")
    ELSE LET series == hyetograph.data
             total  == total_rainfall(hyetograph)
             S      == maximum_storage(curve_number)
             max_i_a == Mul(INITIAL_ABSTRACTION_RATIO, S)
             cum    == CumSum(series)
             ia     == initial_abstraction(cum, max_i_a)
             ca     == continuous_abstraction(S, cum, ia, total)
             ce     == cum_excess_rainfall(cum, ca, ia)
         IN  Ok(Hyetograph(hyetograph.delta_time, trim_zeros(DiffPrepend0(ce))), FALSE)

\* excess_rainfall = series - phi; excess_rainfall[excess_rainfall < 0] = 0
ClampedExcess(series, phi) ==
    [i \in 1..Len(series) |->
        LET d == Sub(series[i], phi) IN IF Lt(d, Zero) THEN Zero ELSE d]

get_excess_rainfall_hyetograph_phi(hyetograph, phi) ==
    IF Lt(phi, Zero) THEN Raise("ValueError")
    ELSE IF Len(hyetograph.data) = 0 THEN Raise("ValueError")
    ELSE Ok(Hyetograph(hyetograph.delta_time,
                       trim_zeros(ClampedExcess(hyetograph.data, phi))),
            Gt(phi, Max(hyetograph.data)))

\* ------------------------------------------------------------ the caller
\* The caller is main(): it builds the unit hydrograph, builds the gross
\* hyetograph, optionally extracts the excess rainfall, and convolves.  An
\* exception ends the run.  pc is main()'s position.
Pulses == {0, 2, 3}

GrossSeries == SeqsUpTo(Pulses, 0, MaxLen)

UnitSeries == {<<1>>, <<2>>, <<1, 2>>, <<2, 1>>, <<1, 2, 1>>}

\* hyetographs a caller passes to Hydrograph(...) explicitly
AssociatedData == {<<>>, <<1>>, <<2>>, <<1, 0>>, <<1, 1>>}

Phis == {-1, 0, 1, 2, 3}

Result(op, arg, r) ==
    [op |-> op, arg |-> arg, status |-> r.status, value |-> r.value, warned |-> r.warned]

Init ==
    /\ pc = "hydrograph"
    /\ gross = None
    /\ excess = None
    /\ unit_hydrograph = None
    /\ out = Result("none", None, Raise("none"))

\* Hydrograph(delta_t, series) or Hydrograph(delta_t, series, hyetograph)
NewHydrograph ==
    /\ pc = "hydrograph"
    /\ \E delta_t \in DeltaTimes, series \in UnitSeries,
          hyetograph \in {None} \cup
              {Hyetograph(d, NumSeq(a)) : d \in DeltaTimes, a \in AssociatedData} :
           LET r == HydrographInit(delta_t, NumSeq(series), hyetograph)
           IN  /\ out' = Result("Hydrograph",
                                [delta_t |-> delta_t, hyetograph |-> hyetograph], r)
               /\ unit_hydrograph' = r.value
               /\ pc' = IF r.status = "ok" THEN "hyetograph" ELSE "failed"
    /\ UNCHANGED <<gross, excess>>

\* Hyetograph(delta_t, series): the gross rainfall
NewHyetograph ==
    /\ pc = "hyetograph"
    /\ \E delta_t \in DeltaTimes, series \in GrossSeries :
           /\ gross' = Hyetograph(delta_t, NumSeq(series))
           /\ out' = Result("Hyetograph", None, Ok(gross', FALSE))
    /\ pc' = "excess"
    /\ UNCHANGED <<excess, unit_hydrograph>>

ExcessPhi ==
    /\ pc = "excess"
    /\ \E phi \in Phis :
           LET r == get_excess_rainfall_hyetograph_phi(gross, Num(phi))
           IN  /\ out' = Result("phi", Num(phi), r)
               /\ excess' = r.value
               /\ pc' = IF r.status = "ok" THEN "convolution" ELSE "failed"
    /\ UNCHANGED <<gross, unit_hydrograph>>

ExcessCN ==
    /\ pc = "excess"
    /\ \E curve_number \in CurveNumbers :
           LET r == get_excess_rainfall_hyetograph_cn(gross, Num(curve_number))
           IN  /\ out' = Result("cn", Num(curve_number), r)
               /\ excess' = r.value
               /\ pc' = IF r.status = "ok" THEN "convolution" ELSE "failed"
    /\ UNCHANGED <<gross, unit_hydrograph>>

\* get_convolution(hyetograph, unit_hydrograph), on the extracted excess
\* hyetograph or, when the caller's hyetograph is already net rainfall, on it
Convolve ==
    /\ pc \in {"excess", "convolution"}
    /\ LET hyetograph == IF pc = "excess" THEN gross ELSE excess
           r == get_convolution(hyetograph, unit_hydrograph)
       IN  /\ out' = Result("convolution", hyetograph, r)
           /\ pc' = IF r.status = "ok" THEN "done" ELSE "failed"
    /\ UNCHANGED <<gross, excess, unit_hydrograph>>

Next ==
    \/ NewHydrograph
    \/ NewHyetograph
    \/ ExcessPhi
    \/ ExcessCN
    \/ Convolve

Spec == Init /\ [][Next]_vars

\* ================================================================ claims
\* what the claims are stated with (none of this models code)
Range(s) == {s[i] : i \in 1..Len(s)}

NonZeroIdx(s) == {i \in 1..Len(s) : s[i] # Zero}

SetMin(S) == CHOOSE i \in S : \A j \in S : i <= j

SetMax(S) == CHOOSE i \in S : \A j \in S : j <= i

\* s without its leading and trailing zeros, interior zeros in place
Strip(s) ==
    IF NonZeroIdx(s) = {} THEN <<>>
    ELSE SubSeq(s, SetMin(NonZeroIdx(s)), SetMax(NonZeroIdx(s)))

\* sum of h[i] * u[k - i] over 0 <= i < n with 0 <= k - i < m (0-indexed)
DirectSum(h, u, k) ==
    Sum([j \in 1..Len(h) |->
            IF 0 <= k - (j - 1) /\ k - (j - 1) < Len(u)
            THEN Mul(h[j], u[k - (j - 1) + 1]) ELSE Zero])

Scale(a, x) == [i \in 1..Len(x) |-> Mul(a, x[i])]

Plus(x, y) == [i \in 1..Len(x) |-> Add(x[i], y[i])]

AllFinite(x) == \A i \in 1..Len(x) : IsFinite(x[i])

IsUnit(hyd) == hyd.associated_hyetograph.data = <<One>>

Convolved == out.op = "convolution"

\* C1: a convolution that passes both preconditions returns n + m - 1 samples,
\* sample k being the direct convolution sum of the excess series and the
\* unit-hydrograph ordinates; [3, 0, 2] with [1, 2, 1] gives [3, 6, 5, 4, 2].
C1_ConvolutionSum ==
    /\ (Convolved /\ IsUnit(unit_hydrograph)
            /\ out.arg.delta_time = unit_hydrograph.delta_time
            /\ Len(unit_hydrograph.data) >= 1)
       => /\ out.status = "ok"
          /\ Len(out.value.data) = Len(out.arg.data) + Len(unit_hydrograph.data) - 1
          /\ \A k \in 0..(Len(out.value.data) - 1) :
                out.value.data[k + 1] = DirectSum(out.arg.data, unit_hydrograph.data, k)
    /\ (Convolved /\ out.status = "ok"
            /\ out.arg.data = NumSeq(<<3, 0, 2>>)
            /\ unit_hydrograph.data = NumSeq(<<1, 2, 1>>))
       => out.value.data = NumSeq(<<3, 6, 5, 4, 2>>)

C1_Witness ==
    /\ Convolved /\ out.status = "ok"
    /\ out.arg.data = NumSeq(<<3, 0, 2>>)
    /\ unit_hydrograph.data = NumSeq(<<1, 2, 1>>)
    /\ out.value.data = NumSeq(<<3, 6, 5, 4, 2>>)

\* the scalar pairs <<a, b>> the linearity is tried with
LinScalars == {<<Num(-1), Num(2)>>, <<Num(2), Frac(1, 2)>>, <<Frac(1, 2), Num(-1)>>}

\* C2: the convolution is linear in the excess series: for the series x1 just
\* convolved, every x2 of the same length and scalars a, b, the data of
\* convolve(a*x1 + b*x2, u) is a * data(convolve(x1, u)) + b * data(convolve(x2, u)).
C2_Linear ==
    (Convolved /\ out.status = "ok" /\ AllFinite(out.arg.data))
    => \A ab \in LinScalars, s2 \in [1..Len(out.arg.data) -> {0, 1}] :
          LET x1 == out.arg
              x2 == Hyetograph(x1.delta_time, NumSeq(s2))
              mix == Hyetograph(x1.delta_time,
                                Plus(Scale(ab[1], x1.data), Scale(ab[2], x2.data)))
              r2 == get_convolution(x2, unit_hydrograph)
              rm == get_convolution(mix, unit_hydrograph)
          IN  /\ r2.status = "ok"
              /\ rm.status = "ok"
              /\ rm.value.data =
                    Plus(Scale(ab[1], out.value.data), Scale(ab[2], r2.value.data))

C2_Witness ==
    /\ Convolved /\ out.status = "ok"
    /\ Len(out.arg.data) = 3
    /\ Len(unit_hydrograph.data) = 3
    /\ Zero \notin Range(out.value.data)

Mismatched == out.arg.delta_time # unit_hydrograph.delta_time

\* C3 as stated: every convolution whose two time steps differ fails with
\* DeltaTimeMismatchError, whatever else holds of the arguments.
C3_AlwaysDeltaTimeError ==
    (Convolved /\ Mismatched)
    => (out.status = "DeltaTimeMismatchError" /\ out.value = None)

\* C3: a convolution whose two time steps differ produces no Hydrograph; it
\* fails with DeltaTimeMismatchError when the second argument is a unit
\* hydrograph, and with NotAUnitHydrographError (checked first) when it is not.
C3_DeltaTimeError ==
    (Convolved /\ Mismatched)
    => /\ out.value = None
       /\ out.status = IF IsUnit(unit_hydrograph) THEN "DeltaTimeMismatchError"
                       ELSE "NotAUnitHydrographError"

C3_Witness ==
    /\ Convolved /\ Mismatched /\ IsUnit(unit_hydrograph)
    /\ out.status = "DeltaTimeMismatchError"
    /\ Len(out.arg.data) >= 2

\* C4: a convolution whose second argument's associated hyetograph data is not
\* exactly [1] fails with NotAUnitHydrographError and yields no result; one
\* whose associated hyetograph data is [1] never raises that error.
C4_NotAUnit ==
    Convolved
    => IF unit_hydrograph.associated_hyetograph.data = NumSeq(<<1>>)
       THEN out.status # "NotAUnitHydrographError"
       ELSE out.status = "NotAUnitHydrographError" /\ out.value = None

C4_Witness ==
    /\ Convolved
    /\ unit_hydrograph.associated_hyetograph.data = NumSeq(<<1, 0>>)
    /\ ~Mismatched
    /\ out.status = "NotAUnitHydrographError"

\* C5: the Hydrograph a successful convolution returns is associated with the
\* excess hyetograph that was passed in (same data, same delta_time), also
\* when that hyetograph is the empty series.
C5_AssociatedIsExcess ==
    (Convolved /\ out.status = "ok")
    => out.value.associated_hyetograph = out.arg

\* C6: constructing a Hydrograph with an explicitly supplied hyetograph whose
\* delta_time differs from the Hydrograph's fails with DeltaTimeMismatchError,
\* whatever the supplied hyetograph's series (the empty one included).
C6_MismatchFailsConstruction ==
    (out.op = "Hydrograph" /\ out.arg.hyetograph # None
        /\ out.arg.hyetograph.delta_time # out.arg.delta_t)
    => out.status = "DeltaTimeMismatchError"

\* max(p[i] - phi, 0) for every pulse
MaxWithZero(series, phi) ==
    [i \in 1..Len(series) |->
        IF Gt(series[i], phi) THEN Sub(series[i], phi) ELSE Zero]

PhiCall == out.op = "phi"

C9_PhiAtLeastMaxWarns ==
    (PhiCall /\ Len(gross.data) >= 1 /\ ~Lt(out.arg, Zero)
        /\ ~Gt(Max(gross.data), out.arg))
    => (out.status = "ok" /\ out.value.data = <<>> /\ out.warned)

CnCall == out.op = "cn"

====
